---- MODULE Spec2Model ----
(***************************************************************************)
(* A model of the GeoPackage merge tool (src/merge.ts).  One run of the    *)
(* tool is one process: it parses its arguments, validates that both input *)
(* files exist, copies the base file to the output path, opens the target  *)
(* and source handles, enumerates the source's data tables, attaches the   *)
(* source to the target connection, copies the tables one by one, detaches,*)
(* closes both handles and reports.  Any exception ends the process in the *)
(* top-level catch with exit code 1 or 2.                                  *)
(*                                                                         *)
(* The file system maps a path to the catalog of the SQLite file stored    *)
(* there: the sequence of its tables in catalog order, each with its name, *)
(* whether the catalog holds a create statement for it, and the set of     *)
(* primary keys of its rows.                                               *)
(***************************************************************************)
EXTENDS Integers, Sequences, FiniteSets, TLC

VARIABLES
    fs,              \* path -> catalog, for every file that exists
    now,             \* the wall clock read by Date.now()
    runsLeft,        \* number of further invocations still to come
    pc,              \* position of the current process
    argv,            \* process.argv.slice(2)
    outputFilename,  \* the module-level `outputFilename`
    targetDb,        \* "none" | "open" | "closed"
    sourceDb,        \* "none" | "open" | "closed"
    attached,        \* source_db is attached to the target connection
    sourceTables,    \* result of getDataTables(sourceDb)
    idx,             \* position of the for-of loop in sourceTables
    totalMerged,     \* the accumulator of the loop
    exitCode,        \* -1 while running, else the process's exit code
    startFiles,      \* history: the paths that existed when the run started
    startFs,         \* history: the file system when the run started
    log              \* history: the calls made on the handles, in order

vars == <<fs, now, runsLeft, pc, argv, outputFilename, targetDb, sourceDb,
          attached, sourceTables, idx, totalMerged, exitCode, startFiles,
          startFs, log>>

(***************************************************************************)
(* Bounds of the model.                                                    *)
(***************************************************************************)
MaxKey == 2
MaxSrcTables == 3
MaxTgtTables == 1
MaxRuns == 2
MaxClock == 2
MaxNearTables == 2

Keys == 1..MaxKey

(***************************************************************************)
(* Strings.                                                                *)
(***************************************************************************)
Char(s, i) == SubSeq(s, i, i)

UpperAlpha == "ABCDEFGHIJKLMNOPQRSTUVWXYZ"
LowerAlpha == "abcdefghijklmnopqrstuvwxyz"

\* ASCII case folding, as SQLite's LIKE does.
UpperChars == {Char(UpperAlpha, i) : i \in 1..26}

LowerOf ==
    [c \in UpperChars |-> Char(LowerAlpha, CHOOSE i \in 1..26 : Char(UpperAlpha, i) = c)]

Lower(c) == IF c \in UpperChars THEN LowerOf[c] ELSE c

\* Template-literal formatting of a non-negative number.
RECURSIVE NumToString(_)
NumToString(n) ==
    IF n < 10 THEN Char("0123456789", n + 1)
    ELSE NumToString(n \div 10) \o Char("0123456789", (n % 10) + 1)

\* Position of the last occurrence of the character c in s, 0 if none.
LastIndexOf(s, c) ==
    LET hits == {i \in 1..Len(s) : Char(s, i) = c}
    IN  IF hits = {} THEN 0 ELSE CHOOSE i \in hits : \A j \in hits : j <= i

\* String.prototype.replace(pattern, '') with a string pattern: the first
\* occurrence only.
ReplaceFirst(s, pat) ==
    LET n == Len(pat)
        hits == {i \in 1..(Len(s) - n + 1) : SubSeq(s, i, i + n - 1) = pat}
    IN  IF n = 0 \/ hits = {} THEN s
        ELSE LET i == CHOOSE h \in hits : \A g \in hits : h <= g
             IN  SubSeq(s, 1, i - 1) \o SubSeq(s, i + n, Len(s))

\* path.basename and path.extname (POSIX).
basename(p) == SubSeq(p, LastIndexOf(p, "/") + 1, Len(p))

extname(p) ==
    LET b == basename(p)
        d == LastIndexOf(b, ".")
    IN  IF d <= 1 THEN "" ELSE SubSeq(b, d, Len(b))

getName(filepath) == ReplaceFirst(basename(filepath), extname(basename(filepath)))

createOutputFilename(args) ==
    IF Len(args) >= 3 /\ args[3] # ""
    THEN args[3]
    ELSE "merged_" \o getName(args[1]) \o "_" \o getName(args[2]) \o ".gpkg"

\* The path the base copy is written to (merge.ts lines 137-144).
finalOutputFilename(files, out, timestamp) ==
    IF out \in files
    THEN ReplaceFirst(out, extname(out)) \o "_" \o NumToString(timestamp) \o extname(out)
    ELSE out

(***************************************************************************)
(* The catalog (sqlite_master) and the SQL statements the tool runs.       *)
(***************************************************************************)

\* SQLite's LIKE on s from position i against pat from position j: '%' is
\* any run of characters, '_' is any one character, letters compare
\* without regard to ASCII case.
RECURSIVE LikeFrom(_, _, _, _)
LikeFrom(s, i, pat, j) ==
    IF j > Len(pat) THEN i > Len(s)
    ELSE IF Char(pat, j) = "%"
         THEN \E k \in i..(Len(s) + 1) : LikeFrom(s, k, pat, j + 1)
         ELSE /\ i <= Len(s)
              /\ \/ Char(pat, j) = "_"
                 \/ Lower(Char(s, i)) = Lower(Char(pat, j))
              /\ LikeFrom(s, i + 1, pat, j + 1)

Like(s, pat) == LikeFrom(s, 1, pat, 1)

\* The WHERE clause of getDataTables.
IsDataTable(name) ==
    /\ ~Like(name, "sqlite_%")
    /\ ~Like(name, "gpkg_%")
    /\ ~Like(name, "rtree_%")

RECURSIVE Names(_)
Names(cat) ==
    IF cat = <<>> THEN <<>> ELSE <<Head(cat).name>> \o Names(Tail(cat))

IsDataEntry(e) == IsDataTable(e.name)

\* A catalog query that lost its NOT LIKE clauses.
getDataTables_Unfiltered(cat) == Names(cat)

\* SELECT name FROM sqlite_master WHERE type = 'table' AND name NOT LIKE ...
getDataTables(cat) == Names(SelectSeq(cat, IsDataEntry))

\* SELECT name FROM sqlite_master WHERE type='table' AND name = ?
tableExists(cat, tableName) == \E i \in 1..Len(cat) : cat[i].name = tableName

\* SELECT sql FROM sqlite_master WHERE type='table' AND name = ? on the
\* source handle: TRUE when a row with a non-empty sql comes back.
hasCreateSQL(cat, tableName) ==
    \E i \in 1..Len(cat) : cat[i].name = tableName /\ cat[i].sql

\* The positions at which a statement's table name resolves in a catalog.
Resolves(cat, tableName) == {i \in 1..Len(cat) : cat[i].name = tableName}

\* createTableIfNotExists: the outcome and the target catalog it leaves.
\* "error" is a thrown exception.
createTableIfNotExists(src, tgt, tableName) ==
    IF tableExists(tgt, tableName)
    THEN [outcome |-> "already_present", cat |-> tgt]
    ELSE IF hasCreateSQL(src, tableName)
         THEN [outcome |-> "created",
               cat |-> Append(tgt, [name |-> tableName, sql |-> TRUE, rows |-> {}])]
         ELSE [outcome |-> "error", cat |-> tgt]

\* An INSERT that overwrites the target table's rows with the source's.
insertTableData_Replace(src, tgt, tableName) ==
    LET si == Resolves(src, tableName)
        ti == Resolves(tgt, tableName)
    IN  IF si = {} \/ ti = {} THEN [outcome |-> "error", cat |-> tgt, changes |-> 0]
        ELSE LET s == CHOOSE i \in si : TRUE
                 t == CHOOSE i \in ti : TRUE
             IN  IF src[s].rows \cap tgt[t].rows # {}
                 THEN [outcome |-> "constraint", cat |-> tgt, changes |-> 0]
                 ELSE [outcome |-> "ok",
                       cat |-> [tgt EXCEPT ![t].rows = src[s].rows],
                       changes |-> Cardinality(src[s].rows)]

\* An INSERT that goes row by row and, when a key collides, leaves the rows
\* that did go in before it throws.
insertTableData_RowByRow(src, tgt, tableName) ==
    LET si == Resolves(src, tableName)
        ti == Resolves(tgt, tableName)
    IN  IF si = {} \/ ti = {} THEN [outcome |-> "error", cat |-> tgt, changes |-> 0]
        ELSE LET s == CHOOSE i \in si : TRUE
                 t == CHOOSE i \in ti : TRUE
             IN  IF src[s].rows \cap tgt[t].rows # {}
                 THEN [outcome |-> "constraint",
                       cat |-> [tgt EXCEPT ![t].rows = @ \cup src[s].rows],
                       changes |-> 0]
                 ELSE [outcome |-> "ok",
                       cat |-> [tgt EXCEPT ![t].rows = @ \cup src[s].rows],
                       changes |-> Cardinality(src[s].rows)]

\* INSERT INTO t SELECT * FROM source_db.t: one statement, all rows or none.
\* A row whose primary key the target table already holds violates the
\* constraint and the statement throws.
insertTableData(src, tgt, tableName) ==
    LET si == Resolves(src, tableName)
        ti == Resolves(tgt, tableName)
    IN  IF si = {} \/ ti = {} THEN [outcome |-> "error", cat |-> tgt, changes |-> 0]
        ELSE LET s == CHOOSE i \in si : TRUE
                 t == CHOOSE i \in ti : TRUE
             IN  IF src[s].rows \cap tgt[t].rows # {}
                 THEN [outcome |-> "constraint", cat |-> tgt, changes |-> 0]
                 ELSE [outcome |-> "ok",
                       cat |-> [tgt EXCEPT ![t].rows = @ \cup src[s].rows],
                       changes |-> Cardinality(src[s].rows)]

(***************************************************************************)
(* Exit codes.                                                             *)
(***************************************************************************)
BAD_REQUEST == 400
NoStatus == 0

\* A catch block with the two exit codes the wrong way round.
ExitCodeFor_Swapped(status) == IF status = BAD_REQUEST THEN 2 ELSE 1

\* The top-level catch: error.status === StatusCodes.BAD_REQUEST ? 1 : 2
ExitCodeFor(status) == IF status = BAD_REQUEST THEN 1 ELSE 2

\* A validation that looks at the first input only.
validateFilesExist_FirstOnly(files, file1, file2) ==
    IF file1 \notin files THEN BAD_REQUEST ELSE NoStatus

\* validateFilesExist: the status of the error it throws, NoStatus if none.
validateFilesExist(files, file1, file2) ==
    IF file1 \notin files \/ file2 \notin files THEN BAD_REQUEST ELSE NoStatus

(***************************************************************************)
(* The process.                                                            *)
(***************************************************************************)
Put(f, k, v) == [x \in (DOMAIN f) \cup {k} |-> IF x = k THEN v ELSE f[x]]

Files == DOMAIN fs

file1 == argv[1]
file2 == argv[2]

\* The catch block of the main try: the process ends with the exit code the
\* error's status selects.  Nothing else runs.
Catch(status) ==
    /\ pc' = "Failed"
    /\ exitCode' = ExitCodeFor(status)

\* Lines 16-35 and 81: the banner, the argument count check, the output name.
Start ==
    /\ pc = "Idle"
    /\ startFiles' = Files
    /\ startFs' = fs
    /\ IF Len(argv) < 2
       THEN /\ pc' = "Failed"
            /\ exitCode' = 1
            /\ UNCHANGED outputFilename
       ELSE /\ pc' = "Parsed"
            /\ outputFilename' = createOutputFilename(argv)
            /\ UNCHANGED exitCode
    /\ UNCHANGED <<fs, now, runsLeft, argv, targetDb, sourceDb, attached,
                   sourceTables, idx, totalMerged, log>>

\* Lines 133-135: validateFilesExist (logFileSizes only reads and prints).
Validate ==
    /\ pc = "Parsed"
    /\ LET status == validateFilesExist(Files, file1, file2)
       IN  IF status # NoStatus
           THEN Catch(status)
           ELSE pc' = "FilesValidated" /\ UNCHANGED exitCode
    /\ UNCHANGED <<fs, now, runsLeft, argv, outputFilename, targetDb, sourceDb,
                   attached, sourceTables, idx, totalMerged, startFiles,
                   startFs, log>>

\* Lines 137-147: choose the final output path and copy the base file there.
\* Date.now() returns a time not before the last one read.
CopyBase ==
    /\ pc = "FilesValidated"
    /\ \E t \in now..MaxClock, ioError \in BOOLEAN :
         LET final == finalOutputFilename(Files, outputFilename, t)
         IN  /\ now' = IF outputFilename \in Files THEN t ELSE now
             /\ outputFilename \notin Files => t = now
             /\ IF ioError
                THEN /\ Catch(NoStatus)
                     /\ UNCHANGED <<fs, outputFilename>>
                ELSE /\ fs' = Put(fs, final, fs[file1])
                     /\ outputFilename' = final
                     /\ pc' = "BaseCopied"
                     /\ UNCHANGED exitCode
    /\ UNCHANGED <<runsLeft, argv, targetDb, sourceDb, attached, sourceTables,
                   idx, totalMerged, startFiles, startFs, log>>

\* Lines 149-150: open the target read-write, then the source read-only.
OpenHandles ==
    /\ pc = "BaseCopied"
    /\ \E failAt \in {"none", "target", "source"} :
         /\ targetDb' = IF failAt = "target" THEN "none" ELSE "open"
         /\ sourceDb' = IF failAt = "none" THEN "open" ELSE "none"
         /\ IF failAt = "none"
            THEN pc' = "HandlesOpen" /\ UNCHANGED exitCode
            ELSE Catch(NoStatus)
    /\ UNCHANGED <<fs, now, runsLeft, argv, outputFilename, attached,
                   sourceTables, idx, totalMerged, startFiles, startFs, log>>

\* Line 152: enumerate the source's data tables.
Enumerate ==
    /\ pc = "HandlesOpen"
    /\ \E ioError \in BOOLEAN :
         IF ioError
         THEN Catch(NoStatus) /\ UNCHANGED sourceTables
         ELSE /\ sourceTables' = getDataTables(fs[file2])
              /\ pc' = "Enumerated"
              /\ UNCHANGED exitCode
    /\ UNCHANGED <<fs, now, runsLeft, argv, outputFilename, targetDb, sourceDb,
                   attached, idx, totalMerged, startFiles, startFs, log>>

\* Lines 154-156: ATTACH DATABASE file2 AS source_db; totalMerged = 0.
Attach ==
    /\ pc = "Enumerated"
    /\ \E ioError \in BOOLEAN :
         IF ioError
         THEN /\ Catch(NoStatus)
              /\ log' = Append(log, <<"attach", "", "error">>)
              /\ UNCHANGED <<attached, idx, totalMerged>>
         ELSE /\ attached' = TRUE
              /\ log' = Append(log, <<"attach", "", "ok">>)
              /\ idx' = 1
              /\ totalMerged' = 0
              /\ pc' = "Merging"
              /\ UNCHANGED exitCode
    /\ UNCHANGED <<fs, now, runsLeft, argv, outputFilename, targetDb, sourceDb,
                   sourceTables, startFiles, startFs>>

\* A loop body that only merges into tables the target already has and
\* passes over the others.
processTable_SkipMissing(src, tgt, tableName, ioError) ==
    LET ins == insertTableData(src, tgt, tableName)
    IN  IF ~tableExists(tgt, tableName)
        THEN [thrown |-> FALSE, cat |-> tgt, rowsAdded |-> 0, calls |-> <<>>]
        ELSE IF ins.outcome # "ok" \/ ioError
        THEN [thrown |-> TRUE, cat |-> tgt, rowsAdded |-> 0,
              calls |-> << <<"ensure", tableName, "already_present">>,
                           <<"append", tableName,
                             IF ins.outcome # "ok" THEN ins.outcome ELSE "error">> >>]
        ELSE [thrown |-> FALSE, cat |-> ins.cat, rowsAdded |-> ins.changes,
              calls |-> << <<"ensure", tableName, "already_present">>,
                           <<"append", tableName, "ok">> >>]

\* What one iteration of the loop at lines 157-165 does to the table
\* sourceTables[idx]: processTable runs createTableIfNotExists and then
\* insertTableData; an exception of either is logged and thrown again.
\* ioError is a failure of the INSERT for another reason than a key.
processTable(src, tgt, tableName, ioError) ==
    LET made == createTableIfNotExists(src, tgt, tableName)
        ins  == insertTableData(src, made.cat, tableName)
    IN  IF made.outcome = "error"
        THEN [thrown |-> TRUE, cat |-> tgt, rowsAdded |-> 0,
              calls |-> << <<"ensure", tableName, "error">> >>]
        ELSE IF ins.outcome # "ok" \/ ioError
        THEN [thrown |-> TRUE,
              cat |-> IF ins.outcome # "ok" THEN ins.cat ELSE made.cat,
              rowsAdded |-> 0,
              calls |-> << <<"ensure", tableName, made.outcome>>,
                           <<"append", tableName,
                             IF ins.outcome # "ok" THEN ins.outcome ELSE "error">> >>]
        ELSE [thrown |-> FALSE, cat |-> ins.cat, rowsAdded |-> ins.changes,
              calls |-> << <<"ensure", tableName, made.outcome>>,
                           <<"append", tableName, "ok">> >>]

ProcessTable ==
    /\ pc = "Merging"
    /\ idx <= Len(sourceTables)
    /\ \E ioError \in BOOLEAN :
         LET r == processTable(fs[file2], fs[outputFilename], sourceTables[idx], ioError)
         IN  /\ fs' = [fs EXCEPT ![outputFilename] = r.cat]
             /\ log' = log \o r.calls
             /\ IF r.thrown
                THEN Catch(NoStatus) /\ UNCHANGED <<idx, totalMerged>>
                ELSE /\ totalMerged' = totalMerged + r.rowsAdded
                     /\ idx' = idx + 1
                     /\ UNCHANGED <<pc, exitCode>>
    /\ UNCHANGED <<now, runsLeft, argv, outputFilename, targetDb, sourceDb,
                   attached, sourceTables, startFiles, startFs>>

\* Line 167: DETACH DATABASE source_db, once the loop is over.
Detach ==
    /\ pc = "Merging"
    /\ idx > Len(sourceTables)
    /\ \E ioError \in BOOLEAN :
         IF ioError
         THEN /\ Catch(NoStatus)
              /\ log' = Append(log, <<"detach", "", "error">>)
              /\ UNCHANGED attached
         ELSE /\ attached' = FALSE
              /\ log' = Append(log, <<"detach", "", "ok">>)
              /\ pc' = "Detached"
              /\ UNCHANGED exitCode
    /\ UNCHANGED <<fs, now, runsLeft, argv, outputFilename, targetDb, sourceDb,
                   sourceTables, idx, totalMerged, startFiles, startFs>>

\* Lines 168-169: sourceDb.close(), then targetDb.close().
CloseHandles ==
    /\ pc = "Detached"
    /\ \E failAt \in {"none", "target", "source"} :
         /\ sourceDb' = IF failAt = "source" THEN "open" ELSE "closed"
         /\ targetDb' = IF failAt = "none" THEN "closed" ELSE "open"
         /\ log' = log \o
                   IF failAt = "source"
                   THEN << <<"close", "source", "error">> >>
                   ELSE << <<"close", "source", "ok">>,
                           <<"close", "target", IF failAt = "none" THEN "ok" ELSE "error">> >>
         /\ IF failAt = "none"
            THEN pc' = "HandlesClosed" /\ UNCHANGED exitCode
            ELSE Catch(NoStatus)
    /\ UNCHANGED <<fs, now, runsLeft, argv, outputFilename, attached,
                   sourceTables, idx, totalMerged, startFiles, startFs>>

\* Lines 171-175: stat the output and print the report; the script ends and
\* the process exits with code 0.
Finish ==
    /\ pc = "HandlesClosed"
    /\ \E ioError \in BOOLEAN :
         IF ioError
         THEN Catch(NoStatus)
         ELSE pc' = "Done" /\ exitCode' = 0
    /\ UNCHANGED <<fs, now, runsLeft, argv, outputFilename, targetDb, sourceDb,
                   attached, sourceTables, idx, totalMerged, startFiles,
                   startFs, log>>

Next ==
    \/ Start
    \/ Validate
    \/ CopyBase
    \/ OpenHandles
    \/ Enumerate
    \/ Attach
    \/ ProcessTable
    \/ Detach
    \/ CloseHandles
    \/ Finish

(***************************************************************************)
(* The datasets and invocations the model starts from.                     *)
(***************************************************************************)
PathA == "d/a.gpkg"
PathB == "b.gpkg"

DataNames == {"roads", "pois", "lakes"}
DataOrder == <<"roads", "pois", "lakes">>

\* The container's own table, which every GeoPackage holds ahead of its data
\* tables.
SystemTable == [name |-> "gpkg_contents", sql |-> TRUE, rows |-> {}]

\* The sequences of at most n distinct elements of S: the catalog orders of
\* a source dataset.
RECURSIVE Arrangements(_, _)
Arrangements(S, n) ==
    IF n = 0 THEN {<<>>}
    ELSE {<<>>} \cup UNION {{<<x>> \o a : a \in Arrangements(S \ {x}, n - 1)} : x \in S}

\* The subsequences of at most n elements of seq.  The tool never reads the
\* order of the base dataset's catalog, so base datasets keep one order.
RECURSIVE Selections(_, _)
Selections(seq, n) ==
    IF seq = <<>> \/ n = 0 THEN {<<>>}
    ELSE Selections(Tail(seq), n)
         \cup {<<Head(seq)>> \o p : p \in Selections(Tail(seq), n - 1)}

\* Rows of a table of the base: keys handed out from 1 on.  Rows of a table
\* of the source: any run of consecutive keys, so that it may lie apart
\* from the base's rows, overlap them in part or repeat them.
BaseRowSets == {1..n : n \in 0..MaxKey}
SourceRowSets == {lo..hi : lo \in Keys, hi \in 0..MaxKey}

\* A table of a catalog.  The tool never reads or writes the rows of a
\* system table.  A source table may lack its create statement; the
\* statement is only looked up before any row is read, so such a table is
\* given no rows.
TargetEntries(n) ==
    IF n \in DataNames
    THEN {[name |-> n, sql |-> TRUE, rows |-> r] : r \in BaseRowSets}
    ELSE {[name |-> n, sql |-> TRUE, rows |-> {}]}

SourceEntries(n) ==
    IF n \in DataNames
    THEN {[name |-> n, sql |-> TRUE, rows |-> r] : r \in SourceRowSets}
         \cup {[name |-> n, sql |-> FALSE, rows |-> {}]}
    ELSE {[name |-> n, sql |-> TRUE, rows |-> {}]}

\* The catalogs whose tables are named ns, in that order.
RECURSIVE CatalogsNamed(_, _)
CatalogsNamed(ns, isSource) ==
    IF ns = <<>> THEN {<<>>}
    ELSE {<<e>> \o c :
            e \in IF isSource THEN SourceEntries(Head(ns)) ELSE TargetEntries(Head(ns)),
            c \in CatalogsNamed(Tail(ns), isSource)}

TargetCatalogs ==
    {<<SystemTable>> \o c :
        c \in UNION {CatalogsNamed(ns, FALSE) : ns \in Selections(DataOrder, MaxTgtTables)}}
SourceCatalogs ==
    {<<SystemTable>> \o c :
        c \in UNION {CatalogsNamed(ns, TRUE) : ns \in Arrangements(DataNames, MaxSrcTables)}}

\* The file systems that hold a base dataset at PathA, a source dataset at
\* PathB, one of them, or neither.
FileSystems ==
    {[p \in {PathA, PathB} |-> IF p = PathA THEN a ELSE b] :
        a \in TargetCatalogs, b \in SourceCatalogs}
    \cup {[p \in {PathA} |-> a] : a \in TargetCatalogs}
    \cup {[p \in {PathB} |-> b] : b \in TargetCatalogs}
    \cup {<<>>}

ProcessInit ==
    /\ pc = "Idle"
    /\ outputFilename = ""
    /\ targetDb = "none"
    /\ sourceDb = "none"
    /\ attached = FALSE
    /\ sourceTables = <<>>
    /\ idx = 0
    /\ totalMerged = 0
    /\ exitCode = -1
    /\ startFiles = {}
    /\ startFs = <<>>
    /\ log = <<>>

\* One invocation `merge d/a.gpkg b.gpkg` on any pair of datasets.
Init ==
    /\ fs \in FileSystems
    /\ now = 1
    /\ runsLeft = 0
    /\ argv = <<PathA, PathB>>
    /\ ProcessInit

Spec == Init /\ [][Next]_vars

(***************************************************************************)
(* Repeated invocations on the same directory, with any arguments.         *)
(***************************************************************************)
PathOut == "out.gpkg"

ArgvSet ==
    {<<>>, <<PathA>>, <<PathA, PathB>>, <<PathA, PathB, "">>,
     <<PathA, PathB, PathOut>>, <<PathA, PathB, PathA>>}

\* The process has ended; the tool is invoked again.  The operating system
\* has released whatever the last process held.
Reinvoke ==
    /\ pc \in {"Done", "Failed"}
    /\ runsLeft > 0
    /\ runsLeft' = runsLeft - 1
    /\ argv' \in ArgvSet
    /\ pc' = "Idle"
    /\ outputFilename' = ""
    /\ targetDb' = "none"
    /\ sourceDb' = "none"
    /\ attached' = FALSE
    /\ sourceTables' = <<>>
    /\ idx' = 0
    /\ totalMerged' = 0
    /\ exitCode' = -1
    /\ startFiles' = {}
    /\ startFs' = <<>>
    /\ log' = <<>>
    /\ UNCHANGED <<fs, now>>

SmallA == << SystemTable, [name |-> "roads", sql |-> TRUE, rows |-> {1}] >>
SmallB == << SystemTable, [name |-> "roads", sql |-> TRUE, rows |-> {2}],
             [name |-> "pois", sql |-> TRUE, rows |-> {1}] >>

RunsInit ==
    /\ fs \in {[p \in S |-> IF p = PathA THEN SmallA ELSE SmallB] : S \in SUBSET {PathA, PathB}}
    /\ now = 1
    /\ runsLeft = MaxRuns - 1
    /\ argv \in ArgvSet
    /\ ProcessInit

RunsNext == Next \/ Reinvoke

RunsSpec == RunsInit /\ [][RunsNext]_vars

(***************************************************************************)
(* Datasets whose table names lie near the reserved prefixes.              *)
(***************************************************************************)
NameSamples ==
    {"roads", "gpkg_contents", "sqlite_sequence", "rtree_roads_geom",
     "gpkgs", "gpkg", "GPKG_tiles", "sqlitedata", "rtree-x", "Rtree_y"}

NearNamesInit ==
    /\ fs \in {[p \in {PathA, PathB} |-> IF p = PathA THEN <<>> ELSE b] :
                 b \in UNION {CatalogsNamed(ns, TRUE) :
                                ns \in Arrangements(NameSamples, MaxNearTables)}}
    /\ now = 1
    /\ runsLeft = 0
    /\ argv = <<PathA, PathB>>
    /\ ProcessInit

NearNamesSpec == NearNamesInit /\ [][Next]_vars

(***************************************************************************)
(* Properties.                                                             *)
(***************************************************************************)
Ended == pc \in {"Done", "Failed"}

Called(op, arg, result) == \E i \in DOMAIN log : log[i] = <<op, arg, result>>

Executed(op, arg) == \E i \in DOMAIN log : log[i][1] = op /\ log[i][2] = arg

AttachSucceeded == Called("attach", "", "ok")

\* The datasets of the run: the base, the source and the output.
BaseAtStart == startFs[file1]
SourceAtStart == startFs[file2]
Output == fs[outputFilename]

DataTableSet(cat) == {cat[i].name : i \in {j \in 1..Len(cat) : IsDataTable(cat[j].name)}}

RowsOf(cat, tableName) ==
    IF Resolves(cat, tableName) = {} THEN {}
    ELSE cat[CHOOSE i \in Resolves(cat, tableName) : TRUE].rows

RowCount(cat, tableName) == Cardinality(RowsOf(cat, tableName))

\* C1: a run does not stop on the primary-key collision of one source
\* table: the failed append is not the last thing a failed run did, so the
\* tables after it are still processed and the run goes on to Done.
C1_CollisionDoesNotAbort ==
    ~ /\ pc = "Failed"
      /\ log # <<>>
      /\ log[Len(log)][1] = "append"
      /\ log[Len(log)][3] = "constraint"

\* C2: once attach has succeeded, a run that has ended, however it ended,
\* has executed detach and has closed the source and the target handle.
C2_CleanupOnEveryExit ==
    (Ended /\ AttachSucceeded) =>
        /\ Executed("detach", "")
        /\ Executed("close", "source")
        /\ Executed("close", "target")

BaseCopyWritten ==
    pc \in {"BaseCopied", "HandlesOpen", "Enumerated", "Merging", "Detached",
            "HandlesClosed", "Done"}

\* C3: the base copy is never written to a path that existed when the run
\* started.
C3_NeverOverwrites == BaseCopyWritten => outputFilename \notin startFiles

MissingInput == Len(argv) >= 2 /\ (file1 \notin startFiles \/ file2 \notin startFiles)

\* C4: a run given two paths of which one does not exist ends in validation
\* with exit code 1: the file system is as it was when the run started, no
\* handle was opened and nothing was attached.
C4_MissingInputFailsFast ==
    (pc # "Idle" /\ MissingInput) =>
        /\ pc \in {"Parsed", "Failed"}
        /\ pc = "Failed" => exitCode = 1
        /\ fs = startFs
        /\ targetDb = "none"
        /\ sourceDb = "none"
        /\ ~attached
        /\ log = <<>>

C4_Witness ==
    /\ pc = "Failed"
    /\ Len(argv) >= 2
    /\ file1 \in startFiles
    /\ file2 \notin startFiles
    /\ exitCode = 1

UserError == Len(argv) < 2 \/ file1 \notin startFiles \/ file2 \notin startFiles

\* C5: the exit code is 0 exactly when the run reached Done; a failed run
\* exits with 1 when an argument or an input file was missing and with 2 in
\* every other case; a run that has not ended has no exit code.
C5_ExitCodeTiers ==
    /\ exitCode = 0 <=> pc = "Done"
    /\ pc = "Failed" => exitCode = IF UserError THEN 1 ELSE 2
    /\ ~Ended => exitCode = -1

C5_Witness ==
    /\ pc = "Failed"
    /\ exitCode = 2
    /\ AttachSucceeded
    /\ Executed("append", "roads")

RECURSIVE RowsGained(_)
RowsGained(names) ==
    IF names = <<>> THEN 0
    ELSE RowCount(Output, Head(names)) - RowCount(BaseAtStart, Head(names))
         + RowsGained(Tail(names))

\* C6: after a completed merge, every data table that the base and the
\* source both hold with disjoint primary keys has as many rows in the
\* output as in the base and the source together, and the reported total is
\* the sum over the source tables of the rows the output gained.
C6_RowConservation ==
    pc = "Done" =>
        LET shared == DataTableSet(BaseAtStart) \cap DataTableSet(SourceAtStart)
        IN  /\ \A n \in shared :
                 RowsOf(BaseAtStart, n) \cap RowsOf(SourceAtStart, n) = {}
                    => RowCount(Output, n)
                         = RowCount(BaseAtStart, n) + RowCount(SourceAtStart, n)
            /\ totalMerged = RowsGained(sourceTables)

C6_Witness ==
    /\ pc = "Done"
    /\ \E n \in DataTableSet(BaseAtStart) \cap DataTableSet(SourceAtStart) :
         /\ RowsOf(BaseAtStart, n) # {}
         /\ RowsOf(SourceAtStart, n) # {}
         /\ RowsOf(BaseAtStart, n) \cap RowsOf(SourceAtStart, n) = {}
    /\ totalMerged >= 2

\* C7: after a completed merge into a fresh output, the data tables of the
\* output are exactly those of the base together with those of the source.
C7_TableSetIsUnion ==
    (pc = "Done" /\ outputFilename \notin startFiles) =>
        DataTableSet(Output) = DataTableSet(BaseAtStart) \cup DataTableSet(SourceAtStart)

C7_Witness ==
    /\ pc = "Done"
    /\ outputFilename \notin startFiles
    /\ DataTableSet(SourceAtStart) \ DataTableSet(BaseAtStart) # {}
    /\ DataTableSet(BaseAtStart) \ DataTableSet(SourceAtStart) # {}

\* C8: ensuring a table never raises: when the target lacks the table and
\* the source has no create statement for it, the outcome is
\* creation_failed and the run goes on.
C8_MissingCreateStatementSkips ==
    \A i \in DOMAIN log :
        log[i][1] = "ensure" =>
            log[i][3] \in {"already_present", "created", "creation_failed"}

HasPrefix(s, prefix) ==
    Len(s) >= Len(prefix) /\ SubSeq(s, 1, Len(prefix)) = prefix

NotReserved(name) ==
    ~HasPrefix(name, "sqlite_") /\ ~HasPrefix(name, "gpkg_") /\ ~HasPrefix(name, "rtree_")

Enumerated == pc \in {"Enumerated", "Merging", "Detached", "HandlesClosed", "Done"}

\* C9: the enumerated tables are exactly the tables of the source catalog,
\* in catalog order, whose name does not begin with the literal text
\* sqlite_, gpkg_ or rtree_.
C9_LiteralPrefixFilter ==
    Enumerated => sourceTables = SelectSeq(Names(fs[file2]), NotReserved)

SourceDataTables == SelectSeq(Names(SourceAtStart), IsDataTable)

\* C10: in a run that reached Done the calls were, in this order: one
\* attach; for each data table of the source, in catalog order, ensure and
\* then append; one detach; the two closes.
C10_CallOrder ==
    pc = "Done" =>
        LET tables == SourceDataTables
            n == Len(tables)
        IN  /\ Len(log) = 2 * n + 4
            /\ log[1] = <<"attach", "", "ok">>
            /\ \A k \in 1..n :
                 /\ log[2 * k][1] = "ensure"
                 /\ log[2 * k][2] = tables[k]
                 /\ log[2 * k][3] \in {"already_present", "created"}
                 /\ log[2 * k + 1] = <<"append", tables[k], "ok">>
            /\ log[2 * n + 2] = <<"detach", "", "ok">>
            /\ log[2 * n + 3] = <<"close", "source", "ok">>
            /\ log[2 * n + 4] = <<"close", "target", "ok">>

C10_Witness ==
    /\ pc = "Done"
    /\ Len(SourceDataTables) = 3
    /\ \E i, j \in DOMAIN log : log[i][3] = "created" /\ log[j][3] = "already_present"

StoppedInTable ==
    /\ pc = "Failed"
    /\ AttachSucceeded
    /\ idx \in 1..Len(sourceTables)

\* C11: when a run fails while processing the k-th source table, the output
\* file exists and holds every table of the base with at least the rows the
\* base had, each of the source tables 1..k-1 with the rows of the base and
\* of the source together, and the k-th table with no row added to what the
\* base had (the table may have been created, and is then empty).
C11_FatalStopKeepsEarlierTables ==
    StoppedInTable =>
        LET failing == sourceTables[idx]
        IN  /\ outputFilename \in Files
            /\ \A i \in 1..Len(BaseAtStart) :
                 /\ tableExists(Output, BaseAtStart[i].name)
                 /\ BaseAtStart[i].rows \subseteq RowsOf(Output, BaseAtStart[i].name)
            /\ \A j \in 1..(idx - 1) :
                 /\ tableExists(Output, sourceTables[j])
                 /\ RowsOf(Output, sourceTables[j])
                      = RowsOf(BaseAtStart, sourceTables[j])
                          \cup RowsOf(SourceAtStart, sourceTables[j])
            /\ RowsOf(Output, failing) = RowsOf(BaseAtStart, failing)

C11_Witness ==
    /\ StoppedInTable
    /\ idx >= 2
    /\ Called("append", sourceTables[idx], "constraint")
    /\ RowsOf(SourceAtStart, sourceTables[idx]) \ RowsOf(BaseAtStart, sourceTables[idx]) # {}
    /\ \E j \in 1..(idx - 1) :
         /\ ~tableExists(BaseAtStart, sourceTables[j])
         /\ RowsOf(Output, sourceTables[j]) # {}

====
